---- MODULE Spec2Model ----
(***************************************************************************)
(* The flow-field visualization plugin of Audio_Canvas: the per-frame      *)
(* render() of a plugin instance (audio feature extraction, beat           *)
(* detection, population resize, particle advance and respawn) and the     *)
(* parameter store that feeds it.                                          *)
(*                                                                         *)
(* The repository holds two revisions of the plugin.  Both are modelled;   *)
(* `variant` says which one an instance was created from:                  *)
(*   Trails   client/src/modules/visualizations/plugins/flow-field/index.ts *)
(*   Anchors  unnamed/part_005 (tracer / drifter / anchor particles)       *)
(*                                                                         *)
(* Numbers.  JavaScript numbers are IEEE doubles.  The model keeps         *)
(*   - bin sums and band divisors as exact integers (a raw band value is   *)
(*     the pair n/d, compared by cross-multiplication);                    *)
(*   - a smoothed band value as a fixed-point number on the byte scale     *)
(*     (0..255 stands for the normalised 0..1), with a flag for NaN;       *)
(*   - the simulation clock by its sign, particle positions and            *)
(*     velocities by whether they are finite or NaN.                       *)
(* Particle counts and lifespans are scaled down (see the bounds).         *)
(***************************************************************************)
EXTENDS Integers, Sequences, FiniteSets, TLC

Trails == "trails"
Anchors == "anchors"
Variants == {Trails, Anchors}

\* ------------------------------------------------------------ bounds
\* Scaled particle counts: the slider minimum (200), the default that is also
\* the size init() builds and the fallback of render() (800 / 600), and the
\* slider maximum (2000 / 1500).
MinCount == 1
DefaultCount == 2
MaxCount == 3
\* Lifespans (maxLife) are drawn from 1..MaxLife ticks; the code draws reals
\* from [100,300), [80,230) or [320,1300).
MaxLife == 2
\* ctx.deltaTime, in milliseconds.
DeltaTime == 16
\* The specifications that follow a changing population stop after this many
\* ticks.
MaxTicks == 2

\* Canvas widths are 1..MaxWidth, and a step takes a particle at most MaxStep
\* past an edge.
MaxWidth == 8
MaxStep == 4
MaxInstances == 3
MaxLoops == 3
MaxCalls == 3
MaxSubscribers == 2
GridRadius == 4
NoiseUnit == 32768
Milli == 1000
DivTolerance == 50
\* Gradient components are multiples of GradStep / Milli up to GradSteps
\* steps either way.
GradStep == 250
GradSteps == 6

\* ------------------------------------------------- program constants
ByteMax == 255
HostFrameLen == 128
BassEnd == 11
MidStart == 20
MidEnd == 61
TrebleStart == 80
TrebleEnd == 121
BassBins == 11
MidBins == 41
TrebleBins == 41
BeatThreshold == 25
Percent == 100

Min(a, b) == IF a < b THEN a ELSE b
Max(a, b) == IF a > b THEN a ELSE b

\* ------------------------------------------------------------ numbers
\* A smoothed value: NaN, or v on the byte scale.
Fin(v) == [nan |-> FALSE, v |-> v]
NaNValue == [nan |-> TRUE, v |-> 0]

\* a / b for b > 0, rounded away from zero: like the real-valued update, the
\* fixed-point one moves the value whenever the raw value differs from it.
RoundAway(a, b) ==
    IF a >= 0 THEN (a + b - 1) \div b ELSE -((b - 1 - a) \div b)

\* Tags of the values the model does not compute.
Finite == "finite"
Zero == "zero"
NaN == "NaN"

\* ------------------------------------------------------------- frames
\* audio.frequencyData: a Uint8Array; bin i of the code is frame[i + 1].
Uniform(len, v) == [i \in 1..len |-> v]

RECURSIVE SumRange(_, _, _)
\* for (let i = lo; i < hi; i++) sum += freqData[i]
\* (summed by halves: the sum is the same and the recursion stays shallow)
SumRange(f, lo, hi) ==
    IF lo >= hi THEN 0
    ELSE IF hi = lo + 1 THEN f[lo + 1]
    ELSE LET half == (lo + hi) \div 2
         IN  SumRange(f, lo, half) + SumRange(f, half, hi)

\* The four raw band values of render(): each a sum and the divisor the code
\* applies to it (11, 41, 41 and the frame length).
RawBands(frame) ==
    LET len == Len(frame) IN
    [ bass   |-> [n |-> SumRange(frame, 0, Min(BassEnd, len)), d |-> BassBins],
      mid    |-> [n |-> SumRange(frame, MidStart, Min(MidEnd, len)), d |-> MidBins],
      treble |-> [n |-> SumRange(frame, TrebleStart, Min(TrebleEnd, len)), d |-> TrebleBins],
      energy |-> [n |-> SumRange(frame, 0, len), d |-> len] ]

\* The host's 128 bins, every bin at the same level.
HostFrame(level) == Uniform(HostFrameLen, level)

BeatLevels == {0, BeatThreshold + 1, ByteMax}

\* ---------------------------------------------------- the host's frames
\* The two revisions of the canvas host: Effects restarts its render loop
\* whenever audioData, activeParams or sensitivity change and reads them from
\* the closure; Refs starts the loop once and reads refs kept up to date by a
\* store subscription.
Effects == "Effects"
Refs == "Refs"
HostRevs == {Effects, Refs}

\* analyser.frequencyBinCount for fftSize 2048.
FftBins == 1024

\* A value stored into a Uint8Array element.
ToUint8(x) == x % (ByteMax + 1)

\* Math.round(x) for x = n / d >= 0 (halves round up).
RoundHalfUp(n, d) == (2 * n + d) \div (2 * d)

\* The sensitivity slider, in tenths: 0.2 to 5 in steps of 0.1, 1 at start.
Sensitivities == {2, 10, 50}

\* The levels of the analyser's bins used in the model.
AnalyserLevels == {BeatThreshold + 1, ByteMax}

\* What frequencyData[i] of the demo frame is before it is stored: between 0
\* and floor(1.5 * 200 * 5/6 + 20) = 270.
DemoValues == {0, ByteMax + 15}

\* The store's audioData: null, or a frame.
NoData == [null |-> TRUE, frequencyData |-> << >>]
Data(frame) == [null |-> FALSE, frequencyData |-> frame]

\* The mutant of CalculateFrameData without the guard for an empty buffer.
CalculateFrameDataUnguarded(buffer) == buffer

\* calculateFrameData(): a 128-bin frame of zeros while the analyser's buffer
\* is empty, a copy of the buffer otherwise.
CalculateFrameData(buffer) ==
    IF Len(buffer) = 0 THEN Uniform(HostFrameLen, 0) ELSE buffer

\* The frames the store's audioData can hold.
AnalyzerFrames ==
    {CalculateFrameData(Uniform(FftBins, level)) : level \in AnalyserLevels}
        \cup {CalculateFrameData(Uniform(0, 0))}

\* generateDemoAudioData(): 128 bins, each stored into a Uint8Array.
DemoFrames == {Uniform(HostFrameLen, ToUint8(v)) : v \in DemoValues}

\* scaledFrequencyData[i] = Math.min(255, Math.round(v * sensitivity)) in
\* Effects, Math.min(255, Math.round(v * sensitivity * 2.5)) in Refs.
ScaledBin(rev, v, s) ==
    IF rev = Effects THEN Min(ByteMax, RoundHalfUp(v * s, 10))
    ELSE Min(ByteMax, RoundHalfUp(v * s * 25, 100))

Scaled(rev, frame, s) == [i \in 1..Len(frame) |-> ToUint8(ScaledBin(rev, frame[i], s))]

\* The frames render() may be given by the host's animation-frame callback
\* for the store's isAudioConnected, audioData, demoMode and sensitivity.
HostAudio(rev, st) ==
    IF rev = Effects
    THEN {Scaled(rev, IF ~st.audioData.null THEN st.audioData.frequencyData
                      ELSE Uniform(HostFrameLen, 0), st.sensitivity)}
    ELSE IF st.isAudioConnected /\ ~st.audioData.null
         THEN {Scaled(rev, st.audioData.frequencyData, st.sensitivity)}
         ELSE IF st.demoMode THEN DemoFrames
         ELSE {Uniform(HostFrameLen, 0)}

Stores ==
    [isAudioConnected : BOOLEAN,
     audioData : {Data(frame) : frame \in AnalyzerFrames} \cup {NoData},
     demoMode : BOOLEAN, sensitivity : Sensitivities]

\* The frames fed to render(), and the raw band values of each.
Frames ==
    {HostFrame(level) : level \in BeatLevels} \cup {Uniform(0, 0)}
        \cup UNION {HostAudio(rev, st) : rev \in HostRevs, st \in Stores}

RawOf == [frame \in Frames |-> RawBands(frame)]

\* SMOOTHING, in percent.
Smoothing(v) == IF v = Trails THEN 25 ELSE 15

\* A smoothing that adds the raw share without removing the old one.
SmoothChannelAdding(v, s, raw) ==
    IF s.nan \/ raw.d = 0 THEN NaNValue
    ELSE Fin(s.v + RoundAway(raw.n * Smoothing(v), raw.d * Percent))

\* smoothed += (raw - smoothed) * SMOOTHING, on the byte scale.  raw = n/d is
\* NaN when d = 0 (the sum is 0 then: 0/0), and NaN is absorbing.
SmoothChannel(v, s, raw) ==
    IF s.nan \/ raw.d = 0 THEN NaNValue
    ELSE Fin(s.v + RoundAway((raw.n - s.v * raw.d) * Smoothing(v), raw.d * Percent))

SmoothAll(v, sm, raw) ==
    [ bass   |-> SmoothChannel(v, sm.bass, raw.bass),
      mid    |-> SmoothChannel(v, sm.mid, raw.mid),
      treble |-> SmoothChannel(v, sm.treble, raw.treble),
      energy |-> SmoothChannel(v, sm.energy, raw.energy) ]

\* ------------------------------------------------------ beat detection
CooldownReset(v) == IF v = Trails THEN 8 ELSE 10

\* A beat test that forgets the rise of the raw bass.
BeatFiresAnyLevel(rawBass, prev, cooldown) == cooldown <= 0

\* isBeat = rawBass > prevBass + 25 && beatCooldown <= 0
BeatFires(rawBass, prev, cooldown) ==
    /\ rawBass.n * prev.d > prev.n * rawBass.d + BeatThreshold * rawBass.d * prev.d
    /\ cooldown <= 0

\* A previous bass taken from the smoothed bass.
PrevBassAfterSmoothed(raw, sm) == [n |-> sm.bass.v, d |-> 1]

\* prevBass = rawBass, on every tick.
PrevBassAfter(raw, sm) == raw.bass

\* A cooldown that starts one tick short.
CooldownAfterShort(v, beat, cooldown) ==
    LET c == IF beat THEN CooldownReset(v) - 1 ELSE cooldown
    IN  IF c > 0 THEN c - 1 ELSE c

\* if (isBeat) beatCooldown = C; ...; if (beatCooldown > 0) beatCooldown--
CooldownAfter(v, beat, cooldown) ==
    LET c == IF beat THEN CooldownReset(v) ELSE cooldown
    IN  IF c > 0 THEN c - 1 ELSE c

\* --------------------------------------------------------- parameters
\* Units: particleCount in particles, fieldStrength and timeScale in tenths,
\* noiseScale in ten-thousandths, drag in hundredths.
ParamIds == {"particleCount", "fieldStrength", "noiseScale", "timeScale", "drag"}

\* defaultParameters[id].value: what the store starts from.
DefaultParameters(v) ==
    IF v = Trails
    THEN [particleCount |-> DefaultCount, fieldStrength |-> 10, noiseScale |-> 30,
          timeScale |-> 5, drag |-> 97]
    ELSE [particleCount |-> DefaultCount, fieldStrength |-> 15, noiseScale |-> 10,
          timeScale |-> 4, drag |-> 96]

\* defaultParameters[id].min and .max: the slider's range.
ParamMin(v) ==
    IF v = Trails
    THEN [particleCount |-> MinCount, fieldStrength |-> 2, noiseScale |-> 10,
          timeScale |-> 1, drag |-> 90]
    ELSE [particleCount |-> MinCount, fieldStrength |-> 5, noiseScale |-> 5,
          timeScale |-> 1, drag |-> 90]

ParamMax(v) ==
    IF v = Trails
    THEN [particleCount |-> MaxCount, fieldStrength |-> 30, noiseScale |-> 100,
          timeScale |-> 20, drag |-> 99]
    ELSE [particleCount |-> MaxCount, fieldStrength |-> 50, noiseScale |-> 30,
          timeScale |-> 15, drag |-> 99]

\* The fallbacks of render(): `params.x as number || fallback`.
Fallbacks(v) ==
    IF v = Trails
    THEN [particleCount |-> DefaultCount, fieldStrength |-> 10, noiseScale |-> 30,
          timeScale |-> 5, drag |-> 97]
    ELSE [particleCount |-> DefaultCount, fieldStrength |-> 15, noiseScale |-> 20,
          timeScale |-> 4, drag |-> 96]

\* x || fallback: 0 is falsy, every other number is kept as it is.
OrFallback(x, fallback) == IF x = 0 THEN fallback ELSE x

\* The tunables a tick works with (render(), the first lines).
Tunables(v, p) ==
    [id \in ParamIds |-> OrFallback(p[id], Fallbacks(v)[id])]

\* The multiplier applied to a velocity, as a fraction of DragUnits:
\* Anchors: p.vx *= drag;  Trails: p.vx *= drag - bass * 0.03.
DragUnits == 25500
DragApplied(v, drag, bass) ==
    IF v = Trails THEN ByteMax * drag - 3 * bass.v ELSE ByteMax * drag

\* ---------------------------------------------------------- particles
Kinds(v) == IF v = Trails THEN {"particle"} ELSE {"tracer", "drifter", "anchor"}

\* What Math.random() decides of a respawned particle: its lifespan and its
\* kind, among the lifespans and kinds a specification lets it draw.
Draws(v, lives, kinds) == [maxLife : lives, kind : Kinds(v) \cap kinds]

\* The lifespans a draw may give.
Lives == 1..MaxLife

\* The kinds a draw may give: every kind, or those of TwoKinds or OneKind
\* (the kind changes nothing but which particles the others are drawn to).
AllKinds == Kinds(Trails) \cup Kinds(Anchors)
TwoKinds == {"particle", "tracer", "anchor"}
OneKind == {"particle", "tracer"}

\* respawnParticle(w, h, hue, burst): age 0; the position is random inside
\* the canvas, the velocity 0 unless the particle is a beat burst.
RespawnParticle(draw, burst) ==
    [ life |-> 0, maxLife |-> draw.maxLife, kind |-> draw.kind,
      x |-> Finite, vx |-> IF burst THEN Finite ELSE Zero ]

\* while (particles.length < targetCount) particles.push(respawnParticle(..))
RECURSIVE PushLoop(_, _, _)
PushLoop(ps, target, rnd) ==
    IF Len(ps) < target
    THEN PushLoop(Append(ps, RespawnParticle(rnd[Len(ps) + 1], FALSE)), target, rnd)
    ELSE ps

\* A shrinking that takes the particles away from the front.
RECURSIVE PopLoopFront(_, _)
PopLoopFront(ps, target) ==
    IF Len(ps) > target /\ Len(ps) > 0
    THEN PopLoopFront(Tail(ps), target)
    ELSE ps

\* while (particles.length > targetCount) particles.pop()
\* pop() of an empty array changes nothing, so with the array empty and the
\* condition still true the loop never ends: PopLoop then yields the empty
\* array it spins on, and PopDiverges says so.
RECURSIVE PopLoop(_, _)
PopLoop(ps, target) ==
    IF Len(ps) > target /\ Len(ps) > 0
    THEN PopLoop(SubSeq(ps, 1, Len(ps) - 1), target)
    ELSE ps

PopDiverges(ps, target) ==
    LET end == PopLoop(ps, target) IN Len(end) > target

\* Trails, on a beat: burstCount >= 20 times, particles[random idx] = burst.
\* The slots hit are any non-empty set of slots (slot 1 of an empty array).
BurstChoices(n, beat) ==
    IF ~beat THEN {{}}
    ELSE IF n = 0 THEN {{1}}
    ELSE SUBSET (1..n) \ {{}}

ApplyBurst(ps, B, rnd) ==
    [i \in 1..Max(Len(ps), IF B = {} THEN 0 ELSE 1) |->
        IF i \in B THEN RespawnParticle(rnd[i], TRUE) ELSE ps[i]]

\* Trails: spawnRate = floor(2 + energy * 15 + (isBeat ? 30 : 0)) random
\* picks; a picked particle past 70% of its life is respawned (a pick can
\* miss only where some slot is not past 70%).  NaN energy makes spawnRate NaN
\* and the loop does not run.
SpawnRate(energy, beat) ==
    IF energy.nan THEN 0
    ELSE 2 + ((15 * energy.v) \div ByteMax) + (IF beat THEN 30 ELSE 0)

Eligible(ps) == {i \in 1..Len(ps) : 10 * ps[i].life > 7 * ps[i].maxLife}

SpawnChoices(ps, rate) ==
    {S \in SUBSET Eligible(ps) :
        /\ Cardinality(S) <= rate
        /\ S = {} => (rate = 0 \/ Eligible(ps) # 1..Len(ps) \/ Len(ps) = 0)}

ApplySpawn(ps, S, rnd) ==
    [i \in 1..Len(ps) |-> IF i \in S THEN RespawnParticle(rnd[i], FALSE) ELSE ps[i]]

\* One particle of the main loop, before the death check: the velocity and
\* the position become NaN from the NaN values they are computed from.
\*  Anchors: the spin term reads p.x, the attraction reads every anchor's
\*           position, `p.vx *= calm + energy * 0.6` reads the energy.
\*  Trails:  `p.x += p.vx * (1 + energy * 0.5)` reads the energy.
Advance(v, p, energy, anchorNaN) ==
    LET velNaN == IF v = Trails THEN p.vx = NaN
                  ELSE \/ p.vx = NaN
                       \/ p.x = NaN
                       \/ energy.nan
                       \/ (p.kind # "anchor" /\ anchorNaN)
        posNaN == IF v = Trails THEN p.x = NaN \/ velNaN \/ energy.nan
                  ELSE p.x = NaN \/ velNaN
    IN  [p EXCEPT !.vx = IF velNaN THEN NaN ELSE Finite,
                  !.x = IF posNaN THEN NaN ELSE Finite,
                  !.life = p.life + 1]

\* A death check that keeps the expired particle.
AfterDeathCheckKeeping(p, rnd, i) == p

\* if (p.life > p.maxLife) { particles[i] = respawnParticle(..); continue; }
AfterDeathCheck(p, rnd, i) ==
    IF p.life > p.maxLife THEN RespawnParticle(rnd[i], FALSE) ELSE p

\* for (let i = 0; i < particles.length; i++) { ... }, from slot i on.
\* `anchors` is the array filtered before the loop: it holds the particle
\* objects themselves, so anchors[k] follows the object of slot k as the loop
\* advances it, and keeps that object when the slot is given a new particle.
RECURSIVE MainLoop(_, _, _, _, _, _)
MainLoop(v, i, ps, anchors, energy, rnd) ==
    IF i > Len(ps) THEN ps
    ELSE LET anchorNaN == \E k \in DOMAIN anchors : anchors[k].x = NaN
             moved == Advance(v, ps[i], energy, anchorNaN)
             kept == AfterDeathCheck(moved, rnd, i)
             anchors2 == IF i \in DOMAIN anchors
                         THEN [anchors EXCEPT ![i] = moved] ELSE anchors
         IN  MainLoop(v, i + 1, [ps EXCEPT ![i] = kept], anchors2, energy, rnd)

\* const anchors = particles.filter(p => p.type === 'anchor')
AnchorsOf(ps) ==
    [k \in {i \in 1..Len(ps) : ps[i].kind = "anchor"} |-> ps[k]]

\* The slots whose particle the main loop will find dead.
Dying(ps) == {i \in 1..Len(ps) : ps[i].life + 1 > ps[i].maxLife}

\* ---------------------------------------------------------------- clock
\* time += ctx.deltaTime * timeScale * 0.001 * (1 + mid * 2)      (Trails)
\* time += ctx.deltaTime * timeScale * 0.001 * (0.8 + bass * 0.4) (Anchors)
\* The last factor is positive (bass and mid are never negative), so the sign
\* of the step is the sign of deltaTime * timeScale.
AddSign(t, step) ==
    IF step = 0 THEN t
    ELSE LET s == IF step > 0 THEN "positive" ELSE "negative"
         IN  IF t = Zero \/ t = s THEN s ELSE "mixed"

TimeAfter(t, deltaTime, timeScale) == AddSign(t, deltaTime * timeScale)

\* ----------------------------------------------------------------- wrap
\* if (p.x < 0) p.x = width;  if (p.x > width) p.x = 0;
WrapAxis(x, width) ==
    LET a == IF x < 0 THEN width ELSE x
    IN  IF a > width THEN 0 ELSE a

Abs(a) == IF a < 0 THEN -a ELSE a

\* ------------------------------------------------------- SimplexNoise
\* The tables have 256 and 512 entries; there are 12 gradients.
PermSize == 256
GradCount == 12

\* grad3, gradient g of the code being grad3[g + 1].
grad3 ==
    << <<1, 1, 0>>, <<-1, 1, 0>>, <<1, -1, 0>>, <<-1, -1, 0>>,
       <<1, 0, 1>>, <<-1, 0, 1>>, <<1, 0, -1>>, <<-1, 0, -1>>,
       <<0, 1, 1>>, <<0, -1, 1>>, <<0, 1, -1>>, <<0, -1, -1>> >>

\* A seed in [0, 1): the value (n / d) * (16807 / 2147483647)^k.
SeedOf(n, d) == [n |-> n, d |-> d, k |-> 0]

\* The seeds generators are constructed from (Math.random() gives one in
\* [0, 1)).
Seeds == {SeedOf(0, 1), SeedOf(1, 2), SeedOf(3, 4)}

\* The constructor's parameter is a number: the seeds a caller may pass
\* besides, one in [0, 1) and one above.
FiniteSeeds == {SeedOf(1, 2), SeedOf(2, 1)}

\* The seed after `steps` updates, each being seed = (seed * 16807) %
\* 2147483647; seed = seed / 2147483647.  For a seed from 0 to 127773 the
\* product is below the modulus, so the remainder is the product.
SeedAfter(seed, steps) == [seed EXCEPT !.k = @ + steps]

\* Math.floor(m * seed) for 0 <= m <= 256: after one update a seed that was
\* below 499 is below 499 * 16807 / 2147483647, and m times that is below 1.
FloorTimes(m, seed) ==
    IF seed.k = 0 THEN (m * seed.n) \div seed.d
    ELSE 0

\* The first loop: p[i] = Math.floor(seed * 256), the seed updated after each.
\* (p is kept as a sequence: p[i] of the code is p[i + 1].)
Filled(seed) ==
    << >> \o [i \in 1..PermSize |-> FloorTimes(PermSize, SeedAfter(seed, i - 1))]

RECURSIVE Shuffled(_, _, _, _)
\* The second loop, for i from hi down to lo: n = Math.floor((i + 1) * seed),
\* the seed is updated, and p[i] and p[n % 256] are exchanged.  The seed at
\* step i is the one after 256 + (255 - i) updates.  (Done by halves.)
Shuffled(p, seed, lo, hi) ==
    IF lo > hi THEN p
    ELSE IF lo = hi
    THEN LET n == FloorTimes(lo + 1, SeedAfter(seed, PermSize + (PermSize - 1 - lo))) % PermSize
         IN  [p EXCEPT ![lo + 1] = p[n + 1], ![n + 1] = p[lo + 1]]
    ELSE LET half == (lo + hi) \div 2
         IN  CHOOSE r \in { Shuffled(upper, seed, lo, half) :
                              upper \in { Shuffled(p, seed, half + 1, hi) } } : TRUE

\* The tables of new SimplexNoise(seed): perm[i] = p[i & 255] and
\* gradP[i] = grad3[perm[i] % 12] for i < 512.
TablesOf(seed) ==
    LET p == Shuffled(Filled(seed), seed, 1, PermSize - 1)
        perm == [i \in 0..(2 * PermSize - 1) |-> p[(i % PermSize) + 1]]
    IN  [perm |-> perm,
         gradP |-> [i \in 0..(2 * PermSize - 1) |-> grad3[(perm[i] % GradCount) + 1]]]

\* The tables for each seed of the model.
Tables == [seed \in Seeds \cup FiniteSeeds |-> TablesOf(seed)]

\* A generator not yet constructed, and one constructed from a seed.
NoGenerator == [built |-> FALSE]
Generator(seed) ==
    [built |-> TRUE, seed |-> seed, perm |-> Tables[seed].perm,
     gradP |-> Tables[seed].gradP]

\* The points noise3D is called at, each coordinate in halves.
Halves == {-1, 0}
Points == Halves \X Halves \X Halves

\* The simplex corner offsets (i1, j1, k1) and (i2, j2, k2) chosen from the
\* order of x0, y0, z0.
Corners(x0, y0, z0) ==
    IF x0 >= y0
    THEN IF y0 >= z0 THEN << <<1, 0, 0>>, <<1, 1, 0>> >>
         ELSE IF x0 >= z0 THEN << <<1, 0, 0>>, <<1, 0, 1>> >>
         ELSE << <<0, 0, 1>>, <<1, 0, 1>> >>
    ELSE IF y0 < z0 THEN << <<0, 0, 1>>, <<0, 1, 1>> >>
         ELSE IF x0 < z0 THEN << <<0, 1, 0>>, <<0, 1, 1>> >>
         ELSE << <<0, 1, 0>>, <<1, 1, 0>> >>

\* table[i] as JavaScript reads it: undefined where the array has no entry
\* i, and where i is itself computed from undefined (NaN).
Undefined == [defined |-> FALSE]
Entry(table, i) ==
    IF i.defined /\ i.v \in DOMAIN table
    THEN [defined |-> TRUE, v |-> table[i.v]]
    ELSE Undefined

\* One corner's term t^4 * dot3(g, x, y, z), the offsets being in sixths:
\* t = 0.6 - x^2 - y^2 - z^2 is tt / 180 and the dot product is dot / 6; the
\* term is 0 when t < 0, the gradient being looked up only when t >= 0.
\* dot3 reads g.x: with g undefined it throws a TypeError (defined = FALSE).
Contribution(g, d) ==
    LET tt == 108 - 5 * (d[1] * d[1] + d[2] * d[2] + d[3] * d[3])
    IN  IF tt < 0 THEN [tt |-> 0, dot |-> 0, defined |-> TRUE]
        ELSE IF g.defined
        THEN [tt |-> tt, dot |-> g.v[1] * d[1] + g.v[2] * d[2] + g.v[3] * d[3],
              defined |-> TRUE]
        ELSE [tt |-> 0, dot |-> 0, defined |-> FALSE]

\* noise3D(x, y, z) of a generator at the point pt (in halves): the four
\* terms whose sum, times 32, is returned.  Lengths are kept in sixths:
\* s = (x + y + z) / 3, i = floor(x + s), t = (i + j + k) / 6, x0 = x - i + t.
noise3D(gen, pt) ==
    LET sum == pt[1] + pt[2] + pt[3]
        i == (3 * pt[1] + sum) \div 6
        j == (3 * pt[2] + sum) \div 6
        k == (3 * pt[3] + sum) \div 6
        t == i + j + k
        d0 == << 3 * pt[1] - 6 * i + t, 3 * pt[2] - 6 * j + t, 3 * pt[3] - 6 * k + t >>
        c == Corners(d0[1], d0[2], d0[3])
        d1 == << d0[1] - 6 * c[1][1] + 1, d0[2] - 6 * c[1][2] + 1, d0[3] - 6 * c[1][3] + 1 >>
        d2 == << d0[1] - 6 * c[2][1] + 2, d0[2] - 6 * c[2][2] + 2, d0[3] - 6 * c[2][3] + 2 >>
        d3 == << d0[1] - 6 + 3, d0[2] - 6 + 3, d0[3] - 6 + 3 >>
        ii == i % PermSize
        jj == j % PermSize
        kk == k % PermSize
        at(n) == [defined |-> TRUE, v |-> n]
        plus(n, e) == IF e.defined THEN at(n + e.v) ELSE Undefined
        gi(di, dj, dk) ==
            Entry(gen.gradP,
                  plus(ii + di, Entry(gen.perm,
                                      plus(jj + dj, Entry(gen.perm, at(kk + dk))))))
    IN  << Contribution(gi(0, 0, 0), d0),
           Contribution(gi(c[1][1], c[1][2], c[1][3]), d1),
           Contribution(gi(c[2][1], c[2][2], c[2][3]), d2),
           Contribution(gi(1, 1, 1), d3) >>

\* The value of noise3D in units of 32 / (6 * 180^4): the sum of the four
\* terms t^4 * dot.
NoiseValue(terms) ==
    LET term(c) == terms[c].tt * terms[c].tt * terms[c].tt * terms[c].tt * terms[c].dot
    IN  term(1) + term(2) + term(3) + term(4)

\* ------------------------------------------------------- getCurlNoise
\* a / b for b > 0, the fraction dropped.
TruncDiv(a, b) == IF a >= 0 THEN a \div b ELSE -((-a) \div b)

RECURSIVE IsqrtIn(_, _, _)
IsqrtIn(n, lo, hi) ==
    IF lo >= hi THEN lo
    ELSE LET mid == (lo + hi + 1) \div 2
         IN  IF mid * mid <= n THEN IsqrtIn(n, mid, hi) ELSE IsqrtIn(n, lo, mid - 1)

\* Math.sqrt(n), the fraction dropped.
Isqrt(n) == IsqrtIn(n, 0, 46340)

\* The last two statements of getCurlNoise, dx and dy being in units of
\* 1 / one: len = Math.sqrt(dx * dx + dy * dy) || 1 is the root unless the
\* root is 0, and then 1; vx = dy / len and vy = -dx / len are in 1 / Milli.
Normalised(dx, dy, one) ==
    LET root == Isqrt(dx * dx + dy * dy)
        len == IF root = 0 THEN one ELSE root
    IN  [len |-> len, vx |-> TruncDiv(dy * Milli, len),
         vy |-> TruncDiv(-dx * Milli, len)]

\* getCurlNoise(x, y, t, scale) in fixed point.  The positions are in units
\* of eps, and eps * scale is one step of the half-integer grid noise3D is
\* computed on, so that the four samples are at (x, y + 1), (x, y - 1),
\* (x + 1, y) and (x - 1, y).  dx and dy are kept in units of NoiseUnit noise
\* units (the division by 2 * eps cancels in dy / len and dx / len; len is 1
\* only when dx = dy = 0, where the quotients are 0 in any unit).  ux and uy
\* are the numerators dy and -dx the code divides by len.
getCurlNoise(gen, x, y, t) ==
    LET n1 == NoiseValue(noise3D(gen, << x, y + 1, t >>))
        n2 == NoiseValue(noise3D(gen, << x, y - 1, t >>))
        n3 == NoiseValue(noise3D(gen, << x + 1, y, t >>))
        n4 == NoiseValue(noise3D(gen, << x - 1, y, t >>))
        dx == TruncDiv(n1 - n2, NoiseUnit)
        dy == TruncDiv(n3 - n4, NoiseUnit)
        flow == Normalised(dx, dy, 1)
    IN  [vx |-> flow.vx, vy |-> flow.vy, ux |-> dy, uy |-> -dx]

\* The divergence of the flow at (x, y) by central differences over one grid
\* step h: (vx(x + h, y) - vx(x - h, y) + vy(x, y + h) - vy(x, y - h)) / 2h,
\* given here times 2h, in 1 / Milli.
Divergence(gen, x, y, t) ==
    getCurlNoise(gen, x + 1, y, t).vx - getCurlNoise(gen, x - 1, y, t).vx
        + getCurlNoise(gen, x, y + 1, t).vy - getCurlNoise(gen, x, y - 1, t).vy

\* The sample points of the grid.
Grid == ((-GridRadius)..GridRadius) \X ((-GridRadius)..GridRadius)

\* The central differences of the noise at (x, y) over one grid step along x
\* and along y, in the units of dx and dy of getCurlNoise.
CentralDifference(gen, x, y, t) ==
    [x |-> TruncDiv(NoiseValue(noise3D(gen, << x + 1, y, t >>))
                        - NoiseValue(noise3D(gen, << x - 1, y, t >>)), NoiseUnit),
     y |-> TruncDiv(NoiseValue(noise3D(gen, << x, y + 1, t >>))
                        - NoiseValue(noise3D(gen, << x, y - 1, t >>)), NoiseUnit)]

\* The flow and its divergence at each grid point at t = 0, for each seed.
FlowSamples ==
    { [seed |-> seed, pt |-> pt,
       curl |-> getCurlNoise(Generator(seed), pt[1], pt[2], 0),
       grad |-> CentralDifference(Generator(seed), pt[1], pt[2], 0),
       div |-> Divergence(Generator(seed), pt[1], pt[2], 0)] :
          seed \in Seeds, pt \in Grid }

\* ---------------------------------------------------------------- state
VARIABLES
    variant,        \* which revision of the plugin this instance is
    params,         \* the store's parameters[flow-field]
    particles,      \* the instance's particles
    smoothedAudio,  \* the instance's smoothedAudio
    prevBass,       \* raw bass of the previous tick, as n/d
    beatCooldown,
    time,           \* the simulation clock, by sign
    status,         \* "returned", or "looping": render() is inside a loop it never leaves
    lastOp,         \* the operation that led to this state
    isBeat,         \* the isBeat of the last tick
    lastRaw,        \* the raw band values of the last tick's frame
    ticks,          \* the number of ticks so far, counted up to MaxTicks
    died,           \* the slots the last tick's main loop respawned
    sinceBeat,      \* ticks since the last beat tick (0 on it), -1 before any
    beatGap,        \* on a beat tick, the ticks since the beat tick before it (0: none)
    emptySeen,      \* some tick was given a zero-length frame
    call,           \* the arguments and the result of the last call looked at
    noise,          \* the SimplexNoise generators looked at, by number
    analyzer,       \* the AudioAnalyzerService and its connect/disconnect calls
    store,          \* the store's isAudioConnected, audioData, demoMode, sensitivity
    host            \* the canvas host: its refs, effects and animation frames

simVars == << variant, params, particles, smoothedAudio, prevBass, beatCooldown, time,
              status, lastOp, isBeat, lastRaw, ticks, died, sinceBeat, beatGap,
              emptySeen >>

envVars == << store, host, noise, analyzer >>

vars == << simVars, call, envVars >>

NoCall == [op |-> "none"]

\* The store as created, but for the demo mode.
InitialStore(demo) ==
    [isAudioConnected |-> FALSE, audioData |-> NoData, demoMode |-> demo,
     sensitivity |-> 10]

\* The host after its first commit: the instance effect has created the
\* instance (number 1) and called init with the canvas size, the resize
\* listener is registered, and the loop effect (closure 1) has requested its
\* first animation frame.
InitialHost(rev) ==
    [ rev            |-> rev,
      mounted        |-> TRUE,
      activeViz      |-> TRUE,   \* the registry knows activeVisualizationId
      instanceRef    |-> 1,      \* instanceRef.current: 0 is null
      created        |-> 1,      \* instances created so far
      destroyed      |-> {},     \* the instances destroy() was called on
      left           |-> {},     \* the populations destroy() left behind
      loops          |-> 1,      \* render closures created so far
      running        |-> {1},    \* the closures whose `running` is true
      pending        |-> {1},    \* the closures with a requested animation frame
      animationIdRef |-> 1,      \* the closure of the latest request, 0 is null
      width          |-> MaxWidth,  \* the width the instance was last given
      renderedDead   |-> FALSE,  \* render() was called on a destroyed instance
      passed         |-> NoData ]   \* the frame of the last render() call

Generators == {1, 2}

\* The calls of connect() and disconnect() looked at.
Calls == 1..MaxCalls

\* audioAnalyzer as constructed, no call made yet.
InitialAnalyzer ==
    [ isConnected  |-> FALSE,
      analyser     |-> FALSE,  \* this.analyser is not null
      audioContext |-> 0,      \* the call that created this.audioContext, 0: null
      stream       |-> 0,      \* the call that obtained this.stream, 0: null
      animationId  |-> 0,      \* the loop of the latest request, 0: null
      pending      |-> {},     \* the loops with a requested animation frame
      started      |-> 0,      \* startLoop() calls so far
      subscribers  |-> 0,      \* the size of this.subscribers
      delivered    |-> 0,      \* frames each subscriber got in the last animation frame
      openStreams  |-> {},     \* the calls whose stream has tracks not stopped
      openContexts |-> {},     \* the calls whose AudioContext close() was not called on
      quiet        |-> FALSE,  \* a disconnect() completed and no connect() succeeded since
      calls        |-> [c \in Calls |-> [kind |-> "none", pc |-> "none"]] ]

InitEnv(revs, demos) ==
    /\ analyzer = InitialAnalyzer
    /\ store \in {InitialStore(demo) : demo \in demos}
    /\ host \in {InitialHost(rev) : rev \in revs}

\* createInstance() and init(ctx), and the store's initial parameters.
InitSim(lives, kinds) ==
    /\ variant \in Variants
    /\ params = DefaultParameters(variant)
    /\ \E rnd \in [1..DefaultCount -> Draws(variant, lives, kinds)] :
          particles = [i \in 1..DefaultCount |-> RespawnParticle(rnd[i], FALSE)]
    /\ smoothedAudio = [bass |-> Fin(0), mid |-> Fin(0), treble |-> Fin(0), energy |-> Fin(0)]
    /\ prevBass = [n |-> 0, d |-> BassBins]
    /\ beatCooldown = 0
    /\ time = Zero
    /\ status = "returned"
    /\ lastOp = "init"
    /\ isBeat = FALSE
    /\ lastRaw = RawBands(<<>>)
    /\ ticks = 0
    /\ died = {}
    /\ sinceBeat = -1
    /\ beatGap = 0
    /\ emptySeen = FALSE
    /\ call = NoCall

\* The simulator on its own: the host and the store stay as they start.
InitWith(lives, kinds) ==
    /\ InitEnv({Refs}, {TRUE})
    /\ InitSim(lives, kinds)
    /\ noise = [g \in Generators |-> NoGenerator]

Init == InitWith(Lives, TwoKinds)

\* The mutant of Updated that adds the value to the stored one.
UpdatedAdding(ps, id, value) == [ps EXCEPT ![id] = @ + value]

\* { ...state.parameters[vizId], [paramId]: value }
Updated(ps, id, value) == [ps EXCEPT ![id] = value]

\* setParameter(vizId, paramId, value) of the store: the value is stored as
\* given.  `again` says that the call before it was the same update.
SetParameterTo(id, value) ==
    /\ status = "returned"
    /\ params' = Updated(params, id, value)
    /\ lastOp' = "setParameter"
    /\ call' = [op |-> "setParameter", id |-> id, value |-> value,
                again |-> (call.op = "setParameter" /\ call.id = id
                                                    /\ call.value = value)]
    /\ UNCHANGED << variant, particles, smoothedAudio, prevBass, beatCooldown, time,
                    status, isBeat, lastRaw, ticks, died, sinceBeat, beatGap,
                    emptySeen >>

\* The audio half of render(): features, smoothing, beat, clock.
AudioPart(frame, deltaTime, t, raw, sm, beat) ==
    /\ smoothedAudio' = sm
    /\ isBeat' = beat
    /\ prevBass' = PrevBassAfter(raw, sm)
    /\ beatCooldown' = CooldownAfter(variant, beat, beatCooldown)
    /\ time' = TimeAfter(time, deltaTime, t.timeScale)
    /\ lastRaw' = raw
    /\ ticks' = Min(ticks + 1, MaxTicks)
    /\ sinceBeat' = IF beat THEN 0
                    ELSE IF sinceBeat < 0 THEN sinceBeat
                    ELSE Min(sinceBeat + 1, CooldownReset(variant))
    /\ beatGap' = IF beat /\ sinceBeat >= 0 THEN sinceBeat + 1 ELSE 0
    /\ emptySeen' = (emptySeen \/ Len(frame) = 0)
    /\ lastOp' = "render"
    /\ UNCHANGED << variant, params >>

\* Features a tick's particles are moved with, taken from the state left by
\* the tick before instead of this tick's.
FrameFeaturesStale(sm, beat) ==
    [energy |-> smoothedAudio.energy, beat |-> isBeat]

\* const energy = smoothedAudio.energy (/ 255), and isBeat: the values the
\* particle loops of this tick read.
FrameFeatures(sm, beat) == [energy |-> sm.energy, beat |-> beat]

\* The particle half of render(): resize to targetCount, burst and respawn
\* (Trails), then the main loop.  `call` keeps the energy and the beat flag
\* the loops were run with.
ParticlePart(target, energy, beat, draws) ==
    /\ call' = [op |-> "render", energy |-> energy, beat |-> beat]
    /\ \E rndPush \in [(Len(particles) + 1)..target -> draws] :
       \E grown \in { PushLoop(particles, target, rndPush) } :
       \E sized \in { PopLoop(grown, target) } :
           IF PopDiverges(grown, target)
           THEN /\ status' = "looping"
                /\ particles' = sized
                /\ died' = {}
           ELSE
             \E B \in BurstChoices(Len(sized),
                                   variant = Trails /\ beat /\ Len(sized) < target + 50) :
             \E rndBurst \in [B -> draws] :
             \E burst \in { ApplyBurst(sized, B, rndBurst) } :
             \E S \in SpawnChoices(burst, IF variant = Trails
                                          THEN SpawnRate(energy, beat) ELSE 0) :
             \E rndSpawn \in [S -> draws] :
             \E spawned \in { ApplySpawn(burst, S, rndSpawn) } :
             \E rndDeath \in [Dying(spawned) -> draws] :
                 /\ particles' = MainLoop(variant, 1, spawned,
                                          IF variant = Anchors THEN AnchorsOf(spawned)
                                          ELSE << >>,
                                          energy, rndDeath)
                 /\ died' = Dying(spawned)
                 /\ status' = "returned"

\* render(ctx, audio, params): one tick.
Tick(frame, deltaTime, lives, kinds, capped) ==
    /\ status = "returned"
    /\ capped => ticks < MaxTicks
    /\ \E t \in { Tunables(variant, params) } :
       \E raw \in { RawOf[frame] } :
       \E sm \in { SmoothAll(variant, smoothedAudio, raw) } :
       \E beat \in { BeatFires(raw.bass, prevBass, beatCooldown) } :
       \E used \in { FrameFeatures(sm, beat) } :
          /\ AudioPart(frame, deltaTime, t, raw, sm, beat)
          /\ ParticlePart(t.particleCount, used.energy, used.beat,
                          Draws(variant, lives, kinds))

\* ---------------------------------------------------- the canvas host
\* The canvas widths a resize leaves the canvas with.
Widths == {MaxWidth \div 2, MaxWidth}

\* destroy(): particles = [].
Destroy(ps) == << >>

\* The mutant of CancelAnimationFrame that cancels nothing.
CancelNothing(pending, id) == pending

\* cancelAnimationFrame(id): the request is withdrawn, its callback never runs.
CancelAnimationFrame(pending, id) == pending \ {id}

\* createInstance() and init(ctx) for a new instance: the state InitWith
\* describes, the store's parameters being kept.
InstanceInit(lives, kinds) ==
    /\ \E rnd \in [1..DefaultCount -> Draws(variant, lives, kinds)] :
          particles' = [i \in 1..DefaultCount |-> RespawnParticle(rnd[i], FALSE)]
    /\ smoothedAudio' = [bass |-> Fin(0), mid |-> Fin(0), treble |-> Fin(0),
                         energy |-> Fin(0)]
    /\ prevBass' = [n |-> 0, d |-> BassBins]
    /\ beatCooldown' = 0
    /\ time' = Zero
    /\ status' = "returned"
    /\ isBeat' = FALSE
    /\ lastRaw' = RawBands(<<>>)
    /\ ticks' = 0
    /\ died' = {}
    /\ sinceBeat' = -1
    /\ beatGap' = 0
    /\ emptySeen' = FALSE

\* The instance the simulator variables describe is destroyed and none takes
\* its place.
InstanceGone ==
    /\ particles' = IF host.instanceRef # 0 THEN Destroy(particles) ELSE particles
    /\ UNCHANGED << smoothedAudio, prevBass, beatCooldown, time, status, isBeat,
                    lastRaw, ticks, died, sinceBeat, beatGap, emptySeen >>

\* The cleanup of the instance effect: if (instanceRef.current) { destroy();
\* instanceRef.current = null }.
InstanceCleanup(h) ==
    IF h.instanceRef = 0 THEN h
    ELSE [h EXCEPT !.destroyed = @ \cup {h.instanceRef},
                   !.left = @ \cup {Destroy(particles)},
                   !.instanceRef = 0]

\* The cleanup of the loop effect: running = false of its closure, and the
\* request animationIdRef names is cancelled.
LoopCleanup(h) ==
    [h EXCEPT !.running = @ \ {h.loops},
              !.pending = IF h.animationIdRef # 0
                          THEN CancelAnimationFrame(@, h.animationIdRef) ELSE @,
              !.animationIdRef = 0]

\* The body of the loop effect: a new closure with running = true requests
\* an animation frame.
LoopStart(h) ==
    [h EXCEPT !.loops = @ + 1,
              !.running = @ \cup {h.loops + 1},
              !.pending = @ \cup {h.loops + 1},
              !.animationIdRef = h.loops + 1]

\* activeVisualizationId changes: the instance effect's cleanup runs, then
\* its body, which returns at once when the registry does not know the id and
\* else creates and initialises a new instance.
ChangeVisualization(known, lives, kinds) ==
    /\ host.mounted
    /\ host.created < MaxInstances
    /\ lastOp' = "activate"
    /\ call' = NoCall
    /\ IF known
       THEN /\ InstanceInit(lives, kinds)
            /\ host' = [InstanceCleanup(host) EXCEPT !.activeViz = TRUE,
                                                     !.created = @ + 1,
                                                     !.instanceRef = host.created + 1]
       ELSE /\ InstanceGone
            /\ host' = [InstanceCleanup(host) EXCEPT !.activeViz = FALSE]
    /\ UNCHANGED << variant, params, store, noise, analyzer >>

\* Effects only: audioData, activeParams or sensitivity changed, so the loop
\* effect's cleanup runs and then its body.
RestartLoop ==
    /\ host.mounted
    /\ host.rev = Effects
    /\ host.loops < MaxLoops
    /\ host' = LoopStart(LoopCleanup(host))
    /\ UNCHANGED << simVars, call, store, noise, analyzer >>

\* window 'resize': handleResize calls setupCanvas and, if there is an
\* instance, its resize(ctx), which stores the new width and height.
Resize ==
    /\ host.mounted
    /\ \E w \in Widths :
          host' = IF host.instanceRef # 0 THEN [host EXCEPT !.width = w] ELSE host
    /\ lastOp' = "resize"
    /\ call' = NoCall
    /\ UNCHANGED << variant, params, particles, smoothedAudio, prevBass,
                    beatCooldown, time, status, isBeat, lastRaw, ticks, died,
                    sinceBeat, beatGap, emptySeen, store, noise, analyzer >>

\* The canvas unmounts: the cleanups of the instance effect, of the resize
\* effect (the listener is removed) and of the loop effect.
Unmount ==
    /\ host.mounted
    /\ InstanceGone
    /\ host' = [LoopCleanup(InstanceCleanup(host)) EXCEPT !.mounted = FALSE]
    /\ lastOp' = "unmount"
    /\ call' = NoCall
    /\ UNCHANGED << variant, params, store, noise, analyzer >>

\* The browser runs the animation-frame callback of closure l: render of the
\* host.  It returns at once when running is false, requests the next frame
\* without rendering when there is no instance, and else calls the
\* instance's render with the frame chosen from the store and requests the
\* next frame.
AnimationFrame(l, lives, kinds) ==
    /\ l \in host.pending
    /\ IF l \notin host.running
       THEN /\ host' = [host EXCEPT !.pending = @ \ {l}]
            /\ UNCHANGED << simVars, call, store, noise, analyzer >>
       ELSE IF host.instanceRef = 0
       THEN /\ host' = [host EXCEPT !.animationIdRef = l]
            /\ UNCHANGED << simVars, call, store, noise, analyzer >>
       ELSE \E frame \in HostAudio(host.rev, store) :
            /\ Tick(frame, DeltaTime, lives, kinds, TRUE)
            /\ host' = [host EXCEPT
                            !.animationIdRef = l,
                            !.renderedDead = @ \/ host.instanceRef \in host.destroyed,
                            !.passed = Data(frame)]
            /\ UNCHANGED << store, noise, analyzer >>

\* ------------------------------------------------------------ inputs
\* The values the settings are given: for the particle count a negative one,
\* zero, the documented bounds and one past the maximum; for the others the
\* documented minimum and one past the maximum.
ParamInputs(v, id) ==
    IF id = "particleCount"
    THEN {-1, 0, MinCount, MaxCount, MaxCount + 1}
    ELSE {ParamMin(v)[id], ParamMax(v)[id] + 1}

\* ---- the simulator under changing particle counts, first MaxTicks ticks
SetParameter ==
    \E value \in {-1, 0, MinCount, DefaultCount} :
        SetParameterTo("particleCount", value) /\ UNCHANGED envVars

Render ==
    \E frame \in {HostFrame(0), HostFrame(ByteMax)} :
        Tick(frame, DeltaTime, Lives, TwoKinds, TRUE) /\ UNCHANGED envVars

Next == SetParameter \/ Render

Spec == Init /\ [][Next]_vars

\* ---- every setting changed, silent frames, first MaxTicks ticks
SetAnyParameter ==
    \E id \in ParamIds : \E value \in ParamInputs(variant, id) :
        SetParameterTo(id, value) /\ UNCHANGED envVars

RenderSilent ==
    Tick(HostFrame(0), DeltaTime, {MaxLife}, OneKind, TRUE) /\ UNCHANGED envVars

NextTunables == SetAnyParameter \/ RenderSilent

SpecTunables == InitWith({MaxLife}, OneKind) /\ [][NextTunables]_vars

\* ---- default settings, quiet host frames and zero-length frames
RenderFrame ==
    \E frame \in {HostFrame(0), HostFrame(BeatThreshold + 1), Uniform(0, 0)} :
        Tick(frame, DeltaTime, {MaxLife}, AllKinds, FALSE) /\ UNCHANGED envVars

SpecAudio == InitWith({MaxLife}, AllKinds) /\ [][RenderFrame]_vars

\* ---- default settings, host frames of every level in BeatLevels
RenderLevel ==
    \E level \in BeatLevels :
        Tick(HostFrame(level), DeltaTime, {MaxLife}, OneKind, FALSE)
            /\ UNCHANGED envVars

SpecBeat == InitWith({MaxLife}, OneKind) /\ [][RenderLevel]_vars

\* ---- the wrap of one coordinate after the position was integrated
WrapStep ==
    \E width \in 1..MaxWidth : \E x \in (-MaxStep)..(MaxWidth + MaxStep) :
        /\ call' = [op |-> "wrap", width |-> width, x |-> x,
                    out |-> WrapAxis(x, width)]
        /\ UNCHANGED << simVars, envVars >>

SpecWrap == InitWith({MaxLife}, OneKind) /\ [][WrapStep]_vars

\* ---- two noise generators, constructed and sampled in any order
\* The mutant of Constructed in which the tables are shared by all
\* generators.
ConstructedShared(gens, g, seed) == [h \in DOMAIN gens |-> Generator(seed)]

\* new SimplexNoise(seed) for generator g: its perm and gradP are filled.
Constructed(gens, g, seed) == [gens EXCEPT ![g] = Generator(seed)]

Construct ==
    \E g \in Generators : \E seed \in Seeds :
        /\ noise' = Constructed(noise, g, seed)
        /\ call' = [op |-> "construct", gen |-> g, seed |-> seed]
        /\ UNCHANGED << simVars, store, host, analyzer >>

\* noise3D(x, y, z) of a constructed generator; `before` keeps the call made
\* just before it, if that was a noise3D call too.
Sample ==
    \E g \in Generators : \E pt \in Points :
        /\ noise[g].built
        /\ call' = [op |-> "noise3D", gen |-> g, seed |-> noise[g].seed, pt |-> pt,
                    out |-> noise3D(noise[g], pt),
                    before |-> IF call.op = "noise3D"
                               THEN << call.gen, call.seed, call.pt, call.out >>
                               ELSE << >>]
        /\ UNCHANGED << simVars, store, host, noise, analyzer >>

NextNoise == Construct \/ Sample

\* new SimplexNoise(seed) with any of the seeds a caller may pass.
ConstructAny ==
    \E g \in Generators : \E seed \in FiniteSeeds :
        /\ noise' = Constructed(noise, g, seed)
        /\ call' = [op |-> "construct", gen |-> g, seed |-> seed]
        /\ UNCHANGED << simVars, store, host, analyzer >>

SpecSeeded == InitWith({MaxLife}, OneKind) /\ [][ConstructAny \/ Sample]_vars

SpecNoise == InitWith({MaxLife}, OneKind) /\ [][NextNoise]_vars

\* ---- the flow field of an initialised instance, sampled over the grid
\* init(): noise = new SimplexNoise(Math.random()).
InitCurl ==
    /\ InitEnv({Refs}, {TRUE})
    /\ InitSim({MaxLife}, OneKind)
    /\ \E seed \in Seeds :
          noise = [g \in Generators |-> IF g = 1 THEN Generator(seed) ELSE NoGenerator]

CurlSample ==
    \E sample \in FlowSamples :
        /\ sample.seed = noise[1].seed
        /\ call' = [op |-> "divergence", pt |-> sample.pt,
                    curl |-> sample.curl, grad |-> sample.grad,
                    div |-> sample.div]
        /\ UNCHANGED << simVars, envVars >>

SpecCurl == InitCurl /\ [][CurlSample]_vars

\* ---- the normalisation of getCurlNoise, over gradients in 1 / Milli
GradientParts == {k * GradStep : k \in (-GradSteps)..GradSteps}

Normalise ==
    \E dx \in GradientParts, dy \in GradientParts :
        /\ call' = [op |-> "normalise", dx |-> dx, dy |-> dy,
                    flow |-> Normalised(dx, dy, Milli)]
        /\ UNCHANGED << simVars, envVars >>

SpecNormal == InitWith({MaxLife}, OneKind) /\ [][Normalise]_vars

\* An animation frame of the host.
Frame == \E l \in 1..MaxLoops : AnimationFrame(l, {MaxLife}, OneKind)

\* ---- the store's audio settings changing between the host's frames
\* A change of the store seen by the host: the Effects host restarts its loop
\* when audioData or sensitivity changed, the Refs host's subscription copies
\* the store into its refs.
StoreChange(st) ==
    /\ host.mounted
    /\ st # store
    /\ store' = st
    /\ IF host.rev = Effects
          /\ (st.audioData # store.audioData \/ st.sensitivity # store.sensitivity)
       THEN /\ host.loops < MaxLoops
            /\ host' = LoopStart(LoopCleanup(host))
       ELSE host' = host
    /\ UNCHANGED << simVars, call, noise, analyzer >>

\* setAudioData(data): a frame from the analyzer's loop, or null on
\* disconnect.
SetAudioData ==
    \E data \in {Data(frame) : frame \in AnalyzerFrames} \cup {NoData} :
        StoreChange([store EXCEPT !.audioData = data])

SetIsAudioConnected ==
    \E connected \in BOOLEAN : StoreChange([store EXCEPT !.isAudioConnected = connected])

SetDemoMode == \E enabled \in BOOLEAN : StoreChange([store EXCEPT !.demoMode = enabled])

SetSensitivity ==
    \E value \in Sensitivities : StoreChange([store EXCEPT !.sensitivity = value])

NextFrames ==
    SetAudioData \/ SetIsAudioConnected \/ SetDemoMode \/ SetSensitivity \/ Frame

InitFrames ==
    /\ InitEnv(HostRevs, {TRUE})
    /\ InitSim({MaxLife}, OneKind)
    /\ noise = [g \in Generators |-> NoGenerator]

SpecFrames == InitFrames /\ [][NextFrames]_vars

\* ---- the analyzer under overlapping connect() and disconnect() calls
\* disconnect() up to its await: isConnected = false, the request animationId
\* names is cancelled, the source is disconnected and the stream stopped.
DisconnectSync(a) ==
    [a EXCEPT !.isConnected = FALSE,
              !.pending = IF a.animationId # 0
                          THEN CancelAnimationFrame(@, a.animationId) ELSE @,
              !.animationId = 0,
              !.openStreams = @ \ {a.stream},
              !.stream = 0,
              !.openContexts = @ \ {a.audioContext}]

\* disconnect() after `await this.audioContext.close()`.
DisconnectTail(a) ==
    [a EXCEPT !.audioContext = 0, !.analyser = FALSE, !.subscribers = 0,
              !.quiet = TRUE]

\* connect() from the analyser's creation on: isConnected = true and
\* startLoop(), which requests an animation frame for a new loop closure.
ConnectTail(a) ==
    [a EXCEPT !.analyser = TRUE,
              !.isConnected = TRUE,
              !.started = @ + 1,
              !.pending = @ \cup {a.started + 1},
              !.animationId = a.started + 1,
              !.quiet = FALSE]

At(a, c, kind, pc) == [a EXCEPT !.calls[c] = [kind |-> kind, pc |-> pc]]

\* connect() is called: if (this.isConnected) await this.disconnect(); then
\* it awaits getUserMedia or getDisplayMedia.
CallConnect ==
    \E c \in Calls :
        /\ analyzer.calls[c].kind = "none"
        /\ analyzer' =
              IF ~analyzer.isConnected THEN At(analyzer, c, "connect", "media")
              ELSE IF analyzer.audioContext # 0
                   THEN At(DisconnectSync(analyzer), c, "connect", "closing")
                   ELSE At(DisconnectTail(DisconnectSync(analyzer)), c, "connect", "media")
        /\ UNCHANGED << simVars, call, store, host, noise >>

\* disconnect() is called.
CallDisconnect ==
    \E c \in Calls :
        /\ analyzer.calls[c].kind = "none"
        /\ analyzer' =
              IF analyzer.audioContext # 0
              THEN At(DisconnectSync(analyzer), c, "disconnect", "closing")
              ELSE At(DisconnectTail(DisconnectSync(analyzer)), c, "disconnect", "done")
        /\ UNCHANGED << simVars, call, store, host, noise >>

\* audioContext.close() has resolved for call c.
Closed ==
    \E c \in Calls :
        /\ analyzer.calls[c].pc = "closing"
        /\ analyzer' = At(DisconnectTail(analyzer), c, analyzer.calls[c].kind,
                          IF analyzer.calls[c].kind = "connect" THEN "media" ELSE "done")
        /\ UNCHANGED << simVars, call, store, host, noise >>

\* The media request of call c has resolved: the stream and a new
\* AudioContext are stored; a suspended context is resumed first.
MediaResolved ==
    \E c \in Calls : \E suspended \in BOOLEAN :
        /\ analyzer.calls[c].pc = "media"
        /\ \E a \in { [analyzer EXCEPT !.stream = c, !.audioContext = c,
                                        !.openStreams = @ \cup {c},
                                        !.openContexts = @ \cup {c}] } :
              analyzer' = IF suspended THEN At(a, c, "connect", "resume")
                          ELSE At(ConnectTail(a), c, "connect", "done")
        /\ UNCHANGED << simVars, call, store, host, noise >>

\* The media request of call c was refused: connect() throws.
MediaRejected ==
    \E c \in Calls :
        /\ analyzer.calls[c].pc = "media"
        /\ analyzer' = At(analyzer, c, "connect", "failed")
        /\ UNCHANGED << simVars, call, store, host, noise >>

\* audioContext.resume() has resolved for call c.  With this.audioContext
\* set to null meanwhile, this.audioContext.createAnalyser() throws.
Resumed ==
    \E c \in Calls :
        /\ analyzer.calls[c].pc = "resume"
        /\ analyzer' = IF analyzer.audioContext = 0
                       THEN At(analyzer, c, "connect", "failed")
                       ELSE At(ConnectTail(analyzer), c, "connect", "done")
        /\ UNCHANGED << simVars, call, store, host, noise >>

\* subscribe(callback), which handleConnect calls once connect() resolved.
Subscribe ==
    /\ analyzer.isConnected
    /\ analyzer.subscribers < MaxSubscribers
    /\ analyzer' = [analyzer EXCEPT !.subscribers = @ + 1]
    /\ UNCHANGED << simVars, call, store, host, noise >>

\* An animation frame: every requested loop callback runs.  Each returns at
\* once if the analyser is null or isConnected is false, and else gives one
\* frame to every subscriber and requests the next animation frame.
AnalyzerFrame ==
    /\ analyzer.pending # {}
    /\ analyzer' =
          IF analyzer.analyser /\ analyzer.isConnected
          THEN [analyzer EXCEPT
                   !.delivered = Cardinality(analyzer.pending),
                   !.animationId = CHOOSE l \in analyzer.pending :
                                       \A k \in analyzer.pending : k <= l]
          ELSE [analyzer EXCEPT !.delivered = 0, !.pending = {}]
    /\ UNCHANGED << simVars, call, store, host, noise >>

NextAnalyzer ==
    \/ CallConnect \/ CallDisconnect \/ Closed \/ MediaResolved \/ MediaRejected
    \/ Resumed \/ Subscribe \/ AnalyzerFrame

SpecAnalyzer == InitWith({MaxLife}, OneKind) /\ [][NextAnalyzer]_vars

\* ---- the bins of each band, for every frame length up to the host's
\* The bins the three band loops of render() read for a frame of len bins:
\* i from 0, 20 and 80 while i < Math.min(11, len), Math.min(61, len) and
\* Math.min(121, len).
BandBins(len) ==
    [ bass   |-> {i \in 0..(HostFrameLen - 1) : i < Min(BassEnd, len)},
      mid    |-> {i \in MidStart..(HostFrameLen - 1) : i < Min(MidEnd, len)},
      treble |-> {i \in TrebleStart..(HostFrameLen - 1) : i < Min(TrebleEnd, len)} ]

BandsOfFrame ==
    \E len \in 0..HostFrameLen :
        /\ call' = [op |-> "bands", len |-> len, bins |-> BandBins(len)]
        /\ UNCHANGED << simVars, envVars >>

SpecBands == InitWith({MaxLife}, OneKind) /\ [][BandsOfFrame]_vars

\* ---- the host's life: visualization changes, resizes, frames, unmount;
\* ---- nothing connected and the demo mode off, so every frame is silent
Activate == \E known \in BOOLEAN : ChangeVisualization(known, {MaxLife}, OneKind)

NextHost == Activate \/ RestartLoop \/ Resize \/ Unmount \/ Frame

InitHost ==
    /\ InitEnv(HostRevs, {FALSE})
    /\ noise = [g \in Generators |-> NoGenerator]
    /\ InitSim({MaxLife}, OneKind)

SpecHost == InitHost /\ [][NextHost]_vars

\* ============================================================ properties
Channels == {"bass", "mid", "treble", "energy"}

\* ---------------------------------------------------------------- C1
\* C1: after a tick that ran with the stored particleCount an integer N >= 0,
\* the population is exactly N (empty for N = 0).
C1_PopulationIsCount ==
    (lastOp = "render" /\ status = "returned" /\ params.particleCount >= 0)
        => Len(particles) = params.particleCount

\* ---------------------------------------------------------------- C2
\* C2: a tick that runs with a negative particleCount returns, and leaves the
\* population empty as a count of 0 would.
C2_NegativeCountIsZero ==
    (lastOp = "render" /\ params.particleCount < 0)
        => (status = "returned" /\ Len(particles) = 0)

\* ---------------------------------------------------------------- C3
\* C3: every tunable a tick worked with lies in its documented [min, max], the
\* population does not exceed the maximum count, and the drag multiplier the
\* tick applied is strictly between 0 and 1.
C3_TunablesInRange ==
    (lastOp = "render" /\ status = "returned") =>
        /\ \A id \in ParamIds :
              /\ ParamMin(variant)[id] <= Tunables(variant, params)[id]
              /\ Tunables(variant, params)[id] <= ParamMax(variant)[id]
        /\ Len(particles) <= MaxCount
        /\ 0 < DragApplied(variant, Tunables(variant, params).drag, smoothedAudio.bass)
        /\ DragApplied(variant, Tunables(variant, params).drag, smoothedAudio.bass)
              < DragUnits

\* ---------------------------------------------------------------- C4
\* C4: two beat ticks are at least C ticks apart (C = CooldownReset), so no
\* window of C consecutive ticks holds two of them.
C4_OneBeatPerWindow ==
    (isBeat /\ beatGap > 0) => beatGap >= CooldownReset(variant)

\* A beat exactly C ticks after the beat before it.
C4_BeatAtWindowEdge ==
    isBeat /\ beatGap = CooldownReset(variant)

\* ---------------------------------------------------------------- C5
\* C5: a tick whose raw bass is more than 25 above the previous tick's, taken
\* with the cooldown at zero, is a beat tick (so is a first frame with every
\* bin at 255); a tick whose raw bass is not above the previous tick's is
\* not.  One step up followed by non-increasing bass gives exactly one beat.
C5_StepUpFiresOnce ==
    [][ lastOp' = "render" =>
          /\ (/\ prevBass'.n * prevBass.d
                    > prevBass.n * prevBass'.d + BeatThreshold * prevBass.d * prevBass'.d
              /\ beatCooldown = 0) => isBeat'
          /\ (ticks = 0 /\ lastRaw' = RawOf[HostFrame(ByteMax)]) => isBeat'
          /\ (prevBass'.n * prevBass.d <= prevBass.n * prevBass'.d) => ~isBeat'
      ]_vars

\* The cooldown of the one beat has run out under silence, and no second beat
\* has come.
C5_OneBeatThenSilence ==
    /\ sinceBeat = CooldownReset(variant)
    /\ beatCooldown = 0
    /\ ~isBeat
    /\ prevBass.n = 0

\* ---------------------------------------------------------------- C6
\* C6: a tick fed a non-empty all-zero frame fires no beat and leaves the
\* smoothed energy a number not above what it was, strictly below it when it
\* was positive.
C6_SilenceDecays ==
    [][ (lastOp' = "render" /\ lastRaw'.energy.d > 0 /\ lastRaw'.energy.n = 0) =>
          /\ ~isBeat'
          /\ ~smoothedAudio.energy.nan /\ ~smoothedAudio'.energy.nan
          /\ smoothedAudio'.energy.v <= smoothedAudio.energy.v
          /\ smoothedAudio.energy.v > 0 =>
                smoothedAudio'.energy.v < smoothedAudio.energy.v
      ]_vars

\* ---------------------------------------------------------------- C7
\* C7: a tick fed a zero-length frame leaves the smoothed bass, mid, treble
\* and energy as they were.
C7_EmptyFrameKeepsFeatures ==
    [][ (lastOp' = "render" /\ lastRaw'.energy.d = 0) =>
            smoothedAudio' = smoothedAudio ]_vars

\* ---------------------------------------------------------------- C8
\* C8: every tick returns, and no smoothed feature, nor the clock, nor any
\* particle's position or velocity is ever NaN.
C8_AllFinite ==
    /\ status = "returned"
    /\ \A ch \in Channels : ~smoothedAudio[ch].nan
    /\ time # NaN
    /\ \A i \in 1..Len(particles) : particles[i].x # NaN /\ particles[i].vx # NaN

\* ---------------------------------------------------------------- C9
\* C9: fed non-empty frames of bytes, every smoothed feature is a number
\* between 0 and 1 (0 and ByteMax on the byte scale).
C9_FeaturesNormalised ==
    ~emptySeen =>
        \A ch \in Channels :
            /\ ~smoothedAudio[ch].nan
            /\ 0 <= smoothedAudio[ch].v
            /\ smoothedAudio[ch].v <= ByteMax

\* The smoothed energy has climbed to full scale.
C9_FullScaleReached ==
    lastOp = "render" /\ ~emptySeen /\ smoothedAudio.energy.v = ByteMax

\* --------------------------------------------------------------- C10
\* C10: at the end of a tick no particle is older than its lifespan, and each
\* slot whose particle the main loop found expired holds a particle of age 0.
C10_AgeWithinLifespan ==
    (lastOp = "render" /\ status = "returned") =>
        /\ \A i \in 1..Len(particles) : particles[i].life <= particles[i].maxLife
        /\ \A i \in died : i <= Len(particles) /\ particles[i].life = 0

\* A tick in which some particle expired.
C10_SomeParticleExpired ==
    lastOp = "render" /\ status = "returned" /\ died # {}

\* --------------------------------------------------------------- C11
\* C11: after the wrap the coordinate is within 0..width; a coordinate that
\* left the range on one side is put on the opposite edge; and the wrap moves
\* it by no more than one width.
C11_WrapWithinOneWidth ==
    call.op = "wrap" =>
        /\ 0 <= call.out /\ call.out <= call.width
        /\ call.x < 0 => call.out = call.width
        /\ call.x > call.width => call.out = 0
        /\ Abs(call.out - call.x) <= call.width

\* --------------------------------------------------------------- C12
\* C12: a tick moves its particles with the smoothed energy and the beat flag
\* it has just computed; these come from this tick's frame: every smoothed
\* feature has moved from its old value towards this frame's raw value (and
\* stays where the two are equal), and the stored previous bass is this
\* frame's.
C12_FeaturesOfThisFrame ==
    [][ lastOp' = "render" =>
          /\ call'.energy = smoothedAudio'.energy
          /\ call'.beat = isBeat'
          /\ prevBass' = lastRaw'.bass
          /\ \A ch \in Channels :
                (lastRaw'[ch].d > 0 /\ ~smoothedAudio[ch].nan) =>
                  /\ ~smoothedAudio'[ch].nan
                  /\ lastRaw'[ch].n > smoothedAudio[ch].v * lastRaw'[ch].d
                        => smoothedAudio'[ch].v > smoothedAudio[ch].v
                  /\ lastRaw'[ch].n < smoothedAudio[ch].v * lastRaw'[ch].d
                        => smoothedAudio'[ch].v < smoothedAudio[ch].v
                  /\ lastRaw'[ch].n = smoothedAudio[ch].v * lastRaw'[ch].d
                        => smoothedAudio'[ch].v = smoothedAudio[ch].v
      ]_vars

\* A beat tick whose particles were moved with the beat flag set and with the
\* energy this tick's loud frame raised.
C12_BeatTickUsesItsFrame ==
    /\ lastOp = "render" /\ isBeat /\ call.beat
    /\ call.energy = smoothedAudio.energy /\ call.energy.v > 0
    /\ ticks > 1

\* ---------------------------------------------------------------- C13
\* C13: once destroy() has been called on an instance (the visualization
\* changed or the canvas unmounted) its population is empty and render() is
\* not called on it again, and after the canvas has unmounted no
\* animation-frame callback of the host is pending, so none runs.
C13_DestroyedStaysDead ==
    /\ host.left \subseteq { << >> }
    /\ ~host.renderedDead
    /\ host.instanceRef \notin host.destroyed
    /\ (host.instanceRef = 0 /\ host.destroyed # {}) => particles = << >>
    /\ ~host.mounted => (host.pending = {} /\ host.running = {})

\* The canvas unmounted after two instances were destroyed, the last of
\* which had been rendered.
C13_UnmountedAfterChange ==
    /\ ~host.mounted
    /\ Cardinality(host.destroyed) >= 2
    /\ ticks > 0
    /\ ~host.passed.null

\* ---------------------------------------------------------------- C14
\* C14: when the canvas has just been resized the simulator is in its
\* initial state: the clock is zero, the smoothed features are zero, the
\* beat cooldown is zero, and every particle is newly created (age 0), none
\* being left from before the resize.
C14_ResizeResets ==
    (lastOp = "resize" /\ host.instanceRef # 0) =>
        /\ time = Zero
        /\ \A c \in Channels : smoothedAudio[c] = Fin(0)
        /\ beatCooldown = 0
        /\ \A i \in 1..Len(particles) : particles[i].life = 0

C16_DivergenceFree ==
    call.op = "divergence" => Abs(call.div) <= DivTolerance

\* ---------------------------------------------------------------- C17
\* C17: a parameter update changes nothing of the simulator (particles,
\* clock, smoothed features, previous bass, cooldown), and an update that
\* repeats the one made just before it leaves the stored parameters, the
\* tunables the next tick reads and the whole simulator state as the first
\* one left them.
C17_UpdateTwiceIsOnce ==
    [][ call'.op = "setParameter" =>
          /\ UNCHANGED << particles, time, smoothedAudio, prevBass, beatCooldown,
                          status, isBeat, ticks >>
          /\ params'[call'.id] = call'.value
          /\ call'.again =>
                /\ params' = params
                /\ Tunables(variant, params') = Tunables(variant, params)
                /\ UNCHANGED simVars ]_vars

\* After a tick, a setting was given a value other than its default twice in
\* a row.
C17_SameUpdateTwice ==
    /\ call.op = "setParameter"
    /\ call.again
    /\ call.value # DefaultParameters(variant)[call.id]
    /\ params[call.id] = call.value
    /\ ticks > 0

\* ---------------------------------------------------------------- C18
\* C18: the frame the host passed to the last render() call is not null, its
\* frequencyData has at least one bin, and every bin is in 0..255, whatever
\* the store's isAudioConnected, audioData, demoMode and sensitivity are.
C18_HostFrameWellFormed ==
    lastOp = "render" =>
        /\ ~host.passed.null
        /\ Len(host.passed.frequencyData) > 0
        /\ \A i \in 1..Len(host.passed.frequencyData) :
              host.passed.frequencyData[i] \in 0..ByteMax

\* The Refs host rendered full-scale analyzer data at the highest
\* sensitivity: 1024 bins, each clamped to 255.
C18_ClampedLiveFrame ==
    /\ lastOp = "render"
    /\ host.rev = Refs
    /\ store.isAudioConnected
    /\ ~store.audioData.null
    /\ store.audioData.frequencyData[1] = ByteMax
    /\ store.sensitivity = 50
    /\ Len(host.passed.frequencyData) = FftBins
    /\ host.passed.frequencyData[FftBins] = ByteMax

\* ---------------------------------------------------------------- C19
\* C19: while the analyzer is connected at most one of its frame loops has an
\* animation frame requested, and in no animation frame does a subscriber
\* get more than one audio frame.
C19_OneFrameLoop ==
    /\ analyzer.isConnected => Cardinality(analyzer.pending) <= 1
    /\ analyzer.delivered <= 1

\* ---------------------------------------------------------------- C20
\* C20: for a frame of any length the bass, mid and treble bins are pairwise
\* disjoint, every bass bin is below every mid bin and every mid bin below
\* every treble bin, there is no bin between two bands that belongs to
\* neither, and the three bands together are all the bins 0..len-1.
C20_BandsPartitionFrame ==
    call.op = "bands" =>
        LET b == call.bins IN
        /\ b.bass \cap b.mid = {} /\ b.mid \cap b.treble = {} /\ b.bass \cap b.treble = {}
        /\ \A i \in b.bass : \A j \in b.mid \cup b.treble : i < j
        /\ \A i \in b.mid : \A j \in b.treble : i < j
        /\ \A i \in b.bass : \A j \in b.mid :
              \A k \in (i + 1)..(j - 1) : k \in b.bass \cup b.mid
        /\ \A i \in b.mid : \A j \in b.treble :
              \A k \in (i + 1)..(j - 1) : k \in b.mid \cup b.treble
        /\ b.bass \cup b.mid \cup b.treble = 0..(call.len - 1)

\* ---------------------------------------------------------------- C21
\* C21: before normalisation getCurlNoise has vx the central-difference
\* derivative of the noise along y and vy the negated central-difference
\* derivative along x.
C21_RotatedGradient ==
    call.op = "divergence" =>
        /\ call.curl.ux = call.grad.y
        /\ call.curl.uy = -call.grad.x

\* ---------------------------------------------------------------- C22
\* C22: the denominator getCurlNoise divides by is max(gradient magnitude,
\* 1.0), so never below 1.0 and never zero: a gradient of magnitude m < 1
\* gives an output of magnitude m, and a zero gradient the zero vector.
C22_DenominatorFloor ==
    call.op = "normalise" =>
        LET m == Isqrt(call.dx * call.dx + call.dy * call.dy)
            out == Isqrt(call.flow.vx * call.flow.vx + call.flow.vy * call.flow.vy)
        IN  /\ call.flow.len = Max(m, Milli)
            /\ m < Milli => Abs(out - m) <= 1
            /\ m = 0 => (call.flow.vx = 0 /\ call.flow.vy = 0)

\* ---------------------------------------------------------------- C23
\* C23: after construction, for every seed, the first 256 entries of perm
\* hold each integer 0..255 exactly once, and entries 256..511 repeat them
\* (perm[i] = perm[i mod 256]).
C23_PermIsPermutation ==
    \A g \in Generators :
        noise[g].built =>
            /\ {noise[g].perm[i] : i \in 0..(PermSize - 1)} = 0..(PermSize - 1)
            /\ \A i \in PermSize..(2 * PermSize - 1) :
                  noise[g].perm[i] = noise[g].perm[i % PermSize]

\* ---------------------------------------------------------------- C24
\* C24: the beat cooldown is an integer in 0..C (C = CooldownReset); a tick
\* on which the beat fires leaves it at C, not decremented in that tick; a
\* tick on which it does not fire lowers it by exactly 1 unless it is 0.
C24_CooldownSetNotDecremented ==
    [][ lastOp' = "render" =>
          /\ beatCooldown' \in 0..CooldownReset(variant)
          /\ isBeat' => beatCooldown' = CooldownReset(variant)
          /\ ~isBeat' => beatCooldown' = IF beatCooldown = 0 THEN 0
                                         ELSE beatCooldown - 1
      ]_vars

\* ---------------------------------------------------------------- C25
\* C25: at the end of every tick, beat or not, cooldown running or not, the
\* stored previous bass is that tick's raw bass; and the tick is a beat tick
\* exactly when its raw bass is more than 25 above the previous tick's raw
\* bass and the cooldown is not running, whatever the smoothed values are.
C25_PrevBassIsRaw ==
    [][ lastOp' = "render" =>
          /\ prevBass' = lastRaw'.bass
          /\ isBeat' <=>
                /\ lastRaw'.bass.n * prevBass.d
                      > prevBass.n * lastRaw'.bass.d
                          + BeatThreshold * prevBass.d * lastRaw'.bass.d
                /\ beatCooldown <= 0
      ]_vars

\* A tick without a beat ended while the cooldown of an earlier beat was
\* still running, the raw bass it stored being far from the smoothed bass.
C25_RawStoredDuringCooldown ==
    /\ lastOp = "render"
    /\ ~isBeat
    /\ beatCooldown > 0
    /\ prevBass = lastRaw.bass
    /\ prevBass.n = ByteMax * BassBins
    /\ ~smoothedAudio.bass.nan
    /\ smoothedAudio.bass.v * Percent < ByteMax * Percent

\* ---------------------------------------------------------------- C26
\* C26: when a non-anchor particle is attracted toward an anchor during a
\* tick, that anchor is in the population at that moment: no particle is
\* drawn to an anchor that died and was replaced earlier in the same tick.
\* (The main loop draws the non-anchor of slot j to every entry of `anchors`,
\* the anchors of the population as it entered the loop; slot i < j has been
\* given a new particle by then if the loop found it dead.)
C26_AnchorsInPopulation ==
    [][ (lastOp' = "render" /\ variant = Anchors /\ status' = "returned") =>
          \A j \in 1..Len(particles') : \A i \in 1..(j - 1) :
              ~ /\ i \in died'
                /\ i <= Len(particles)
                /\ particles[i].kind = "anchor"
                /\ (IF j <= Len(particles) THEN particles[j].kind
                    ELSE particles'[j].kind) # "anchor"
      ]_vars

\* ---------------------------------------------------------------- C27
\* C27: a tick gives a slot a new particle only when the age of the particle
\* in it exceeds its lifespan; the new particle is in the same slot, has age
\* 0, zero velocity, a position inside the canvas and a lifespan of the
\* configured range, like one created at construction or on growth, and the
\* replacement leaves the size of the population as the resize step set it.
\* (Every particle the main loop keeps leaves the tick one tick older than it
\* entered the loop: a slot that was filled before the tick and does not hold
\* a particle one tick older than before was given a new particle.)
C27_ReplacedOnlyWhenDead ==
    [][ (lastOp' = "render" /\ status' = "returned") =>
          /\ \A i \in 1..Min(Len(particles), Len(particles')) :
                particles'[i].life # particles[i].life + 1 =>
                    /\ particles[i].life + 1 > particles[i].maxLife
                    /\ i \in died'
          /\ \A i \in died' :
                /\ i \in 1..Len(particles')
                /\ particles'[i].life = 0
                /\ particles'[i].vx = Zero
                /\ particles'[i].x = Finite
                /\ particles'[i].maxLife \in Lives
          /\ Len(particles') = Tunables(variant, params).particleCount
      ]_vars

\* ---------------------------------------------------------------- C28
\* C28: the resize step of a tick leaves the particles of the slots below
\* min(old size, target) in their slots: growth appends new particles at the
\* end, shrinking removes particles from the end.  (After the tick such a
\* slot holds the particle it held before, one tick older, unless the tick
\* gave the slot a new particle, whose age is then 0 or 1; a slot past the
\* old size holds a particle created in this tick.)
C28_ResizeKeepsPrefix ==
    [][ (lastOp' = "render" /\ status' = "returned") =>
          LET target == Tunables(variant, params).particleCount
          IN  /\ Len(particles') = target
              /\ \A i \in 1..Min(Len(particles), target) :
                    \/ /\ particles'[i].maxLife = particles[i].maxLife
                       /\ particles'[i].kind = particles[i].kind
                       /\ particles'[i].life = particles[i].life + 1
                    \/ particles'[i].life = 0 /\ i \in died'
                    \/ particles'[i].life = 1 /\ variant = Trails
              /\ \A i \in (Len(particles) + 1)..target :
                    particles'[i].life = 1
      ]_vars

\* The Anchors revision (where a particle of age 1 after a later tick was
\* appended in that tick) has shrunk the population to its first particle in
\* one tick and grown it again behind that particle in a later one.
C28_ShrunkThenGrownBehindSurvivor ==
    /\ variant = Anchors
    /\ lastOp = "render"
    /\ status = "returned"
    /\ Len(particles) = DefaultCount
    /\ ticks > 1
    /\ particles[1].life = ticks
    /\ \A i \in 2..DefaultCount : particles[i].life = 1

\* ---------------------------------------------------------------- C29
\* C29: for every finite seed given to the constructor and every point,
\* every index noise3D uses into perm and gradP is in 0..511 and refers to a
\* defined entry, so that no sample fails on an undefined table entry.
C29_IndicesDefined ==
    call.op = "noise3D" =>
        /\ \A c \in 1..4 : call.out[c].defined
        /\ \A i \in DOMAIN noise[call.gen].perm :
              noise[call.gen].perm[i] \in 0..(PermSize - 1)

\* ---------------------------------------------------------------- C30
\* C30: from the completion of a disconnect() until a connect() succeeds,
\* whatever the interleaving of the calls, every stream obtained by a
\* connect() has its tracks stopped, every audio context created by one has
\* been closed, and an animation-frame callback still requested returns at
\* once, invoking no subscriber and requesting no further frame.  (What a
\* connect() holds that has its media and is still on its way to success is
\* not counted.)
C30_DisconnectReleasesAll ==
    analyzer.quiet =>
        LET connecting == {c \in Calls : analyzer.calls[c].pc = "resume"}
        IN  /\ analyzer.openStreams \subseteq connecting
            /\ analyzer.openContexts \subseteq connecting
            /\ analyzer.pending # {} => ~(analyzer.analyser /\ analyzer.isConnected)
====
